---- MODULE Spec2Model ----
(***************************************************************************)
(* A model of DBStructure.py: the declarative schema (tables, primary      *)
(* keys, unique columns, foreign keys, relationships whose backref carries *)
(* cascade="all, delete"), the ORM's insert and delete of one row against  *)
(* the configured PostgreSQL engine, the module's load (create_engine and  *)
(* create_all), and the pure helpers for enum names and passwords.         *)
(*                                                                         *)
(* A row keeps the columns that decide whether a write is accepted and     *)
(* what a delete removes: the primary key, the unique columns and the      *)
(* foreign keys.  The other columns (titles, texts, counters, flags) are   *)
(* payload no constraint reads.                                            *)
(***************************************************************************)
EXTENDS Integers, Sequences, FiniteSets, Bags, TLC

\* Bounds of the model.
MaxId == 2
MaxRows == 3
MaxLen == 3
MaxTime == 2

\* A nullable column holding None.
NULL == 0

Ids == 1 .. MaxId
Emails == 1 .. MaxId
Names == 1 .. MaxId
Times == 1 .. MaxId
OptIds == Ids \cup {NULL}

(***************************************************************************)
(* The schema.  One record per mapped class: its __tablename__, its        *)
(* primary-key columns, its unique columns, its ForeignKey columns, and    *)
(* the foreign-key columns over which a relationship(...) with             *)
(* backref(..., cascade="all, delete") is declared.                        *)
(***************************************************************************)
FK(col, ref, refcol) == [col |-> col, ref |-> ref, refcol |-> refcol]

User ==
    [tablename |-> "user", pk |-> {"uid"}, unique |-> {"email"},
     fks |-> {}, relationships |-> {}]

UserTeachingAreas ==
    [tablename |-> "user_teaching_areas", pk |-> {"uid", "teaching_area"},
     unique |-> {},
     fks |-> {FK("uid", "user", "uid")},
     relationships |-> {"uid"}]

Resource ==
    [tablename |-> "resource", pk |-> {"rid"}, unique |-> {},
     fks |-> {}, relationships |-> {}]

ResourceView ==
    [tablename |-> "resource_view", pk |-> {"rid", "uid"}, unique |-> {},
     fks |-> {FK("rid", "resource", "rid"), FK("uid", "user", "uid")},
     relationships |-> {"rid", "uid"}]

ResourceVoteInfo ==
    [tablename |-> "resource_vote_info", pk |-> {"uid", "rid"}, unique |-> {},
     fks |-> {FK("uid", "user", "uid"), FK("rid", "resource", "rid")},
     relationships |-> {"uid", "rid"}]

ResourceCreater ==
    [tablename |-> "resource_creater", pk |-> {"rid", "uid"}, unique |-> {},
     fks |-> {FK("rid", "resource", "rid"), FK("uid", "user", "uid")},
     relationships |-> {"rid", "uid"}]

ResourceComment ==
    [tablename |-> "resource_comment", pk |-> {"resource_comment_id"},
     unique |-> {},
     fks |-> {FK("uid", "user", "uid"), FK("rid", "resource", "rid")},
     relationships |-> {"uid", "rid"}]

ResourceCommentReply ==
    [tablename |-> "resource_comment_reply",
     pk |-> {"resource_comment_id", "created_at", "uid"}, unique |-> {},
     fks |-> {FK("resource_comment_id", "resource_comment", "resource_comment_id"),
              FK("uid", "user", "uid")},
     relationships |-> {"resource_comment_id", "uid"}]

PrivateResourcePersonnel ==
    [tablename |-> "private_resource_personnel", pk |-> {"rid", "uid"},
     unique |-> {},
     fks |-> {FK("rid", "resource", "rid"), FK("uid", "user", "uid")},
     relationships |-> {"rid", "uid"}]

Tag ==
    [tablename |-> "tag", pk |-> {"tag_id"}, unique |-> {"tag_name"},
     fks |-> {}, relationships |-> {}]

ResourceTagRecord ==
    [tablename |-> "resource_tag_record", pk |-> {"tag_id", "rid"},
     unique |-> {},
     fks |-> {FK("tag_id", "tag", "tag_id"), FK("rid", "resource", "rid")},
     relationships |-> {"tag_id", "rid"}]

Channel ==
    [tablename |-> "channel", pk |-> {"cid"}, unique |-> {"name"},
     fks |-> {FK("admin_uid", "user", "uid")},
     relationships |-> {"admin_uid"}]

ChannelPersonnel ==
    [tablename |-> "channel_personnel", pk |-> {"cid", "uid"}, unique |-> {},
     fks |-> {FK("cid", "channel", "cid"), FK("uid", "user", "uid")},
     relationships |-> {"cid", "uid"}]

ChannelTagRecord ==
    [tablename |-> "channel_tag_record", pk |-> {"tag_id", "cid"},
     unique |-> {},
     fks |-> {FK("tag_id", "tag", "tag_id"), FK("cid", "channel", "cid")},
     relationships |-> {"tag_id", "cid"}]

\* ChannelPost.uid is a ForeignKey to user.uid, but the class declares a
\* relationship for cid only.
ChannelPost ==
    [tablename |-> "channel_post", pk |-> {"post_id"}, unique |-> {},
     fks |-> {FK("uid", "user", "uid"), FK("cid", "channel", "cid")},
     relationships |-> {"cid"}]

ChannelPostVoteInfo ==
    [tablename |-> "channel_post_vote_info", pk |-> {"post_id", "uid"},
     unique |-> {},
     fks |-> {FK("post_id", "channel_post", "post_id"), FK("uid", "user", "uid")},
     relationships |-> {"post_id", "uid"}]

PostComment ==
    [tablename |-> "post_comment", pk |-> {"post_comment_id"}, unique |-> {},
     fks |-> {FK("post_id", "channel_post", "post_id"), FK("uid", "user", "uid")},
     relationships |-> {"post_id", "uid"}]

PostCommentVoteInfo ==
    [tablename |-> "post_comment_vote_info", pk |-> {"post_comment_id", "uid"},
     unique |-> {},
     fks |-> {FK("post_comment_id", "post_comment", "post_comment_id"),
              FK("uid", "user", "uid")},
     relationships |-> {"post_comment_id", "uid"}]

\* Every class declared on the declarative base.
Base ==
    {User, UserTeachingAreas, Resource, ResourceView, ResourceVoteInfo,
     ResourceCreater, ResourceComment, ResourceCommentReply,
     PrivateResourcePersonnel, Tag, ResourceTagRecord, Channel,
     ChannelPersonnel, ChannelTagRecord, ChannelPost, ChannelPostVoteInfo,
     PostComment, PostCommentVoteInfo}

TableNames == {c.tablename : c \in Base}

\* Base.metadata.tables: the class of each table name.
metadata == [t \in TableNames |-> CHOOSE c \in Base : c.tablename = t]

(***************************************************************************)
(* The enum classes and the two conversions between a member and its       *)
(* website text.  A str is the sequence of its characters.                 *)
(***************************************************************************)
\* A member of an enum class: its class, its name, its value.
Member(cls, name, value) == [class |-> cls, name |-> name, value |-> value]

\* Python's None, shaped like a member so that the two compare.
None == [class |-> "NoneType", name |-> <<>>, value |-> 0]

ResourceDifficulty ==
    {Member("ResourceDifficulty", <<"E", "A", "S", "Y">>, 0),
     Member("ResourceDifficulty", <<"M", "O", "D", "E", "R", "A", "T", "E">>, 1),
     Member("ResourceDifficulty", <<"H", "A", "R", "D">>, 2),
     Member("ResourceDifficulty", <<"S", "P", "E", "C", "I", "A", "L", "I", "S", "T">>, 3)}

Subject ==
    {Member("Subject", <<"E", "N", "G", "L", "I", "S", "H">>, 0),
     Member("Subject", <<"M", "A", "T", "H", "S", "_", "A">>, 1),
     Member("Subject", <<"M", "A", "T", "H", "S", "_", "B">>, 2),
     Member("Subject", <<"M", "A", "T", "H", "S", "_", "C">>, 3),
     Member("Subject", <<"B", "I", "O", "L", "O", "G", "Y">>, 4),
     Member("Subject", <<"G", "E", "O", "G", "R", "A", "P", "H", "Y">>, 5),
     Member("Subject", <<"C", "H", "E", "M", "I", "S", "T", "R", "Y">>, 6),
     Member("Subject", <<"P", "H", "Y", "S", "I", "C", "S">>, 7),
     Member("Subject", <<"A", "C", "C", "O", "U", "N", "T", "I", "N", "G">>, 8),
     Member("Subject", <<"E", "C", "O", "N", "O", "M", "I", "C", "S">>, 9),
     Member("Subject", <<"A", "N", "C", "I", "E", "N", "T", "_", "H", "I", "S", "T", "O", "R", "Y">>, 10),
     Member("Subject", <<"L", "E", "G", "A", "L", "_", "S", "T", "U", "D", "I", "E", "S">>, 11),
     Member("Subject", <<"B", "U", "S", "I", "N", "E", "S", "S", "_", "S", "T", "U", "D", "I", "E", "S">>, 12),
     Member("Subject", <<"S", "O", "C", "I", "A", "L", "_", "S", "T", "U", "D", "I", "E", "S">>, 13),
     Member("Subject", <<"D", "A", "N", "C", "E">>, 14),
     Member("Subject", <<"D", "R", "A", "M", "A">>, 15),
     Member("Subject", <<"I", "T">>, 16),
     Member("Subject", <<"M", "U", "S", "I", "C">>, 17),
     Member("Subject", <<"D", "E", "S", "I", "G", "N">>, 18),
     Member("Subject", <<"P", "E">>, 19),
     Member("Subject", <<"C", "H", "I", "N", "E", "S", "E">>, 20),
     Member("Subject", <<"S", "P", "A", "N", "I", "S", "H">>, 21),
     Member("Subject", <<"G", "E", "R", "M", "A", "N">>, 22),
     Member("Subject", <<"J", "A", "P", "A", "N", "E", "S", "E">>, 23),
     Member("Subject", <<"O", "T", "H", "E", "R">>, 24)}

Grade ==
    {Member("Grade", <<"K", "I", "N", "D", "E", "R", "G", "A", "R", "T", "E", "N">>, 0),
     Member("Grade", <<"Y", "E", "A", "R", "_", "1">>, 1),
     Member("Grade", <<"Y", "E", "A", "R", "_", "2">>, 2),
     Member("Grade", <<"Y", "E", "A", "R", "_", "3">>, 3),
     Member("Grade", <<"Y", "E", "A", "R", "_", "4">>, 4),
     Member("Grade", <<"Y", "E", "A", "R", "_", "5">>, 5),
     Member("Grade", <<"Y", "E", "A", "R", "_", "6">>, 6),
     Member("Grade", <<"Y", "E", "A", "R", "_", "7">>, 7),
     Member("Grade", <<"Y", "E", "A", "R", "_", "8">>, 8),
     Member("Grade", <<"Y", "E", "A", "R", "_", "9">>, 9),
     Member("Grade", <<"Y", "E", "A", "R", "_", "1", "0">>, 10),
     Member("Grade", <<"Y", "E", "A", "R", "_", "1", "1">>, 11),
     Member("Grade", <<"Y", "E", "A", "R", "_", "1", "2">>, 12),
     Member("Grade", <<"T", "E", "R", "T", "I", "A", "R", "Y">>, 13)}

ChannelVisibility ==
    {Member("ChannelVisibility", <<"I", "N", "V", "I", "T", "E", "_", "O", "N", "L", "Y">>, 0),
     Member("ChannelVisibility", <<"F", "U", "L", "L", "Y", "_", "P", "R", "I", "V", "A", "T", "E">>, 1),
     Member("ChannelVisibility", <<"P", "U", "B", "L", "I", "C">>, 2)}

EnumClasses == {ResourceDifficulty, Subject, Grade, ChannelVisibility}

Lowercase ==
    <<"a", "b", "c", "d", "e", "f", "g", "h", "i", "j", "k", "l", "m",
      "n", "o", "p", "q", "r", "s", "t", "u", "v", "w", "x", "y", "z">>

Uppercase ==
    <<"A", "B", "C", "D", "E", "F", "G", "H", "I", "J", "K", "L", "M",
      "N", "O", "P", "Q", "R", "S", "T", "U", "V", "W", "X", "Y", "Z">>

Letters == 1 .. Len(Lowercase)

IsLower(c) == \E i \in Letters : Lowercase[i] = c
IsUpper(c) == \E i \in Letters : Uppercase[i] = c
IsCased(c) == IsLower(c) \/ IsUpper(c)

ToUpper(c) ==
    IF IsLower(c) THEN Uppercase[CHOOSE i \in Letters : Lowercase[i] = c] ELSE c

ToLower(c) ==
    IF IsUpper(c) THEN Lowercase[CHOOSE i \in Letters : Uppercase[i] = c] ELSE c

\* str.upper() and str.lower()
str_upper(s) == [i \in 1 .. Len(s) |-> ToUpper(s[i])]
str_lower(s) == [i \in 1 .. Len(s) |-> ToLower(s[i])]

\* str.replace(old, new, 1) for one-character old and new: the first
\* occurrence only.
str_replace_1(s, old, new) ==
    IF \E i \in 1 .. Len(s) : s[i] = old
    THEN LET first == CHOOSE i \in 1 .. Len(s) :
                        /\ s[i] = old
                        /\ \A j \in 1 .. (i - 1) : s[j] # old
         IN [s EXCEPT ![first] = new]
    ELSE s

\* str.title(): a cased character is upper-cased when it follows an uncased
\* one or starts the string, lower-cased when it follows a cased one.
str_title(s) ==
    [i \in 1 .. Len(s) |->
        IF ~IsCased(s[i]) THEN s[i]
        ELSE IF i = 1 \/ ~IsCased(s[i - 1]) THEN ToUpper(s[i])
        ELSE ToLower(s[i])]

\* The underscore replaced by nothing instead of a space.
enum_to_website_output_joined(item) ==
    str_title(SelectSeq(str_lower(item.name), LAMBDA c : c # "_"))

\* item.name.lower().replace('_', ' ', 1).title()
enum_to_website_output(item) ==
    str_title(str_replace_1(str_lower(item.name), "_", " "))

\* enum_class[value]: the member of that name, or KeyError.
EnumGetItem(enum_class, value) ==
    IF \E m \in enum_class : m.name = value
    THEN [raised |-> "", ret |-> CHOOSE m \in enum_class : m.name = value]
    ELSE [raised |-> "KeyError", ret |-> None]

\* The lookup outside a try block: its KeyError reaches the caller.
website_input_to_enum_uncaught(readable_string, enum_class) ==
    EnumGetItem(enum_class, str_replace_1(str_upper(readable_string), " ", "_"))

\* value = readable_string.upper().replace(' ', '_', 1); the lookup's
\* KeyError is caught, a message printed and None returned.
website_input_to_enum(readable_string, enum_class) ==
    LET value == str_replace_1(str_upper(readable_string), " ", "_")
        found == EnumGetItem(enum_class, value)
    IN IF found.raised = "KeyError"
       THEN [raised |-> "", ret |-> None]
       ELSE found

(***************************************************************************)
(* The password helpers.  A str is the sequence of its code points, a      *)
(* bytes object the sequence of its bytes.                                 *)
(***************************************************************************)
Flatten(seqs) ==
    LET F[i \in 0 .. Len(seqs)] == IF i = 0 THEN <<>> ELSE F[i - 1] \o seqs[i]
    IN F[Len(seqs)]

IsSurrogate(cp) == cp >= 55296 /\ cp <= 57343

\* The UTF-8 bytes of one code point.
Utf8Bytes(cp) ==
    IF cp < 128 THEN <<cp>>
    ELSE IF cp < 2048 THEN <<192 + (cp \div 64), 128 + (cp % 64)>>
    ELSE IF cp < 65536
         THEN <<224 + (cp \div 4096), 128 + ((cp \div 64) % 64), 128 + (cp % 64)>>
    ELSE <<240 + (cp \div 262144), 128 + ((cp \div 4096) % 64),
           128 + ((cp \div 64) % 64), 128 + (cp % 64)>>

\* str.encode(): UTF-8, strict: a lone surrogate raises UnicodeEncodeError.
str_encode(s) ==
    IF \E i \in 1 .. Len(s) : IsSurrogate(s[i])
    THEN [raised |-> "UnicodeEncodeError", ret |-> <<>>]
    ELSE [raised |-> "", ret |-> Flatten([i \in 1 .. Len(s) |-> Utf8Bytes(s[i])])]

IsContinuation(b) == b >= 128 /\ b <= 191

\* The length of the UTF-8 sequence a lead byte starts, 0 for no lead byte.
Utf8Length(b) ==
    IF b < 128 THEN 1
    ELSE IF b >= 194 /\ b <= 223 THEN 2
    ELSE IF b >= 224 /\ b <= 239 THEN 3
    ELSE IF b >= 240 /\ b <= 244 THEN 4
    ELSE 0

\* The code point of one well-formed UTF-8 sequence.
Utf8CodePoint(bs) ==
    IF Len(bs) = 1 THEN bs[1]
    ELSE IF Len(bs) = 2 THEN (bs[1] - 192) * 64 + (bs[2] - 128)
    ELSE IF Len(bs) = 3
         THEN (bs[1] - 224) * 4096 + (bs[2] - 128) * 64 + (bs[3] - 128)
    ELSE (bs[1] - 240) * 262144 + (bs[2] - 128) * 4096
         + (bs[3] - 128) * 64 + (bs[4] - 128)

\* The least code point a sequence of n bytes may encode.
Utf8Least(n) == IF n = 1 THEN 0 ELSE IF n = 2 THEN 128 ELSE IF n = 3 THEN 2048 ELSE 65536

\* bytes.decode(): UTF-8, strict: a malformed, overlong or surrogate
\* sequence raises UnicodeDecodeError.
RECURSIVE bytes_decode(_)
bytes_decode(bs) ==
    IF bs = <<>> THEN [raised |-> "", ret |-> <<>>]
    ELSE LET n == Utf8Length(bs[1])
         IN IF \/ n = 0
               \/ n > Len(bs)
               \/ \E i \in 2 .. n : ~IsContinuation(bs[i])
            THEN [raised |-> "UnicodeDecodeError", ret |-> <<>>]
            ELSE LET cp == Utf8CodePoint(SubSeq(bs, 1, n))
                     rest == bytes_decode(SubSeq(bs, n + 1, Len(bs)))
                 IN IF cp < Utf8Least(n) \/ IsSurrogate(cp) \/ cp > 1114111
                       \/ rest.raised # ""
                    THEN [raised |-> "UnicodeDecodeError", ret |-> <<>>]
                    ELSE [raised |-> "", ret |-> <<cp>> \o rest.ret]

\* The base64 alphabet: A-Z, a-z, 0-9, '+', '/', as ASCII bytes.
B64Byte(i) ==
    IF i < 26 THEN 65 + i
    ELSE IF i < 52 THEN 97 + (i - 26)
    ELSE IF i < 62 THEN 48 + (i - 52)
    ELSE IF i = 62 THEN 43
    ELSE 47

\* '='
B64Pad == 61

IsB64Byte(b) == \E i \in 0 .. 63 : B64Byte(i) = b
B64Index(b) == CHOOSE i \in 0 .. 63 : B64Byte(i) = b

\* An encoder that leaves the '=' padding out.
RECURSIVE b64encode_unpadded(_)
b64encode_unpadded(bs) ==
    IF bs = <<>> THEN <<>>
    ELSE IF Len(bs) = 1
         THEN <<B64Byte(bs[1] \div 4), B64Byte((bs[1] % 4) * 16)>>
    ELSE IF Len(bs) = 2
         THEN <<B64Byte(bs[1] \div 4),
                B64Byte((bs[1] % 4) * 16 + (bs[2] \div 16)),
                B64Byte((bs[2] % 16) * 4)>>
    ELSE <<B64Byte(bs[1] \div 4),
           B64Byte((bs[1] % 4) * 16 + (bs[2] \div 16)),
           B64Byte((bs[2] % 16) * 4 + (bs[3] \div 64)),
           B64Byte(bs[3] % 64)>> \o b64encode_unpadded(SubSeq(bs, 4, Len(bs)))

\* base64.b64encode: three bytes make four characters; a last group of one
\* or two bytes is padded with '='.
RECURSIVE b64encode(_)
b64encode(bs) ==
    IF bs = <<>> THEN <<>>
    ELSE IF Len(bs) = 1
         THEN <<B64Byte(bs[1] \div 4), B64Byte((bs[1] % 4) * 16), B64Pad, B64Pad>>
    ELSE IF Len(bs) = 2
         THEN <<B64Byte(bs[1] \div 4),
                B64Byte((bs[1] % 4) * 16 + (bs[2] \div 16)),
                B64Byte((bs[2] % 16) * 4), B64Pad>>
    ELSE <<B64Byte(bs[1] \div 4),
           B64Byte((bs[1] % 4) * 16 + (bs[2] \div 16)),
           B64Byte((bs[2] % 16) * 4 + (bs[3] \div 64)),
           B64Byte(bs[3] % 64)>> \o b64encode(SubSeq(bs, 4, Len(bs)))

\* The bytes of one group of four characters, padding included.
B64Group(g) ==
    LET a == B64Index(g[1])
        b == B64Index(g[2])
    IN IF g[3] = B64Pad THEN <<a * 4 + (b \div 16)>>
       ELSE LET c == B64Index(g[3])
            IN IF g[4] = B64Pad
               THEN <<a * 4 + (b \div 16), (b % 16) * 16 + (c \div 4)>>
               ELSE <<a * 4 + (b \div 16), (b % 16) * 16 + (c \div 4),
                      (c % 4) * 64 + B64Index(g[4])>>

\* A group of four: alphabet characters, with '=' or '==' at its end at most.
B64GroupOk(g, isLast) ==
    /\ IsB64Byte(g[1]) /\ IsB64Byte(g[2])
    /\ IsB64Byte(g[3]) \/ (isLast /\ g[3] = B64Pad /\ g[4] = B64Pad)
    /\ IsB64Byte(g[4]) \/ (isLast /\ g[4] = B64Pad)

\* base64.b64decode: characters outside the alphabet are dropped, and text
\* that is then not whole groups of four raises binascii.Error.
RECURSIVE b64decode(_)
b64decode(bs) ==
    LET kept == SelectSeq(bs, LAMBDA b : IsB64Byte(b) \/ b = B64Pad)
    IN IF kept = <<>> THEN [raised |-> "", ret |-> <<>>]
       ELSE IF Len(kept) < 4 \/ ~B64GroupOk(SubSeq(kept, 1, 4), Len(kept) = 4)
            THEN [raised |-> "binascii.Error", ret |-> <<>>]
       ELSE LET rest == b64decode(SubSeq(kept, 5, Len(kept)))
            IN IF rest.raised # "" THEN rest
               ELSE [raised |-> "", ret |-> B64Group(SubSeq(kept, 1, 4)) \o rest.ret]

\* base64.b64encode(password.encode()).decode()
ascii_to_base64(password) ==
    LET bs == str_encode(password)
    IN IF bs.raised # "" THEN bs ELSE bytes_decode(b64encode(bs.ret))

\* base64.b64decode(encoded_password.encode()).decode()
base64_to_ascii(encoded_password) ==
    LET bs == str_encode(encoded_password)
    IN IF bs.raised # "" THEN bs
       ELSE LET raw == b64decode(bs.ret)
            IN IF raw.raised # "" THEN raw ELSE bytes_decode(raw.ret)

\* Texts a caller may pass to website_input_to_enum.
WebsiteInputs ==
    {<<"M", "a", "t", "h", "s", " ", "A">>,
     <<"m", "a", "t", "h", "s", " ", "a">>,
     <<"M", "A", "T", "H", "S", "_", "A">>,
     <<"M", "a", "t", "h", "s", "_", "A">>,
     <<"M", "a", "t", "h", "s", " ", " ", "A">>,
     <<"F", "u", "l", "l", "y", " ", "P", "r", "i", "v", "a", "t", "e">>,
     <<"f", "u", "l", "l", "y", " ", "p", "r", "i", "v", "a", "t", "e">>,
     <<"I", "n", "v", "i", "t", "e", " ", "O", "n", "l", "y">>,
     <<"P", "u", "b", "l", "i", "c">>,
     <<" ", "P", "u", "b", "l", "i", "c">>,
     <<"P", "u", "b", "l", "i", "c", " ">>,
     <<"Y", "e", "a", "r", " ", "1", "2">>,
     <<"Y", "e", "a", "r", " ", "1">>,
     <<"y", "e", "a", "r", "_", "1", "2">>,
     <<"Y", "e", "a", "r", "1", "2">>,
     <<"A", "n", "c", "i", "e", "n", "t", " ", "H", "i", "s", "t", "o", "r", "y">>,
     <<"A", "n", "c", "i", "e", "n", "t", " ", " ", "H", "i", "s", "t", "o", "r", "y">>,
     <<"L", "e", "g", "a", "l", " ", "S", "t", "u", "d", "i", "e", "s">>,
     <<"N", "o", "n", "e", "x", "i", "s", "t", "e", "n", "t", " ", "V", "a", "l", "u", "e">>,
     <<"E", "a", "s", "y">>,
     <<"S", "p", "e", "c", "i", "a", "l", "i", "s", "t">>,
     <<"I", "t">>,
     <<"P", "e">>,
     <<"T", "e", "r", "t", "i", "a", "r", "y">>,
     <<"A", " ", "B", " ", "C">>,
     <<>>}

VARIABLES
    catalog,    \* the tables that exist in the store
    db,         \* the rows stored in each table: a bag of rows per table
    last,       \* the last call on the store and how it ended
    helper,     \* the last call of a conversion helper and what it returned
    now,        \* the wall clock: what datetime.datetime.now() returns
    created_at_default  \* per table, the default= of its created_at Column

vars == <<catalog, db, last, helper, now, created_at_default>>

\* No row selected in any table.
NoRows == [t \in TableNames |-> {}]

\* Every table empty.  A table is a bag: the constraints, not the
\* representation, keep a row from being stored twice.
EmptyTables == [t \in TableNames |-> EmptyBag]

Stored(d, t) == BagToSet(d[t])

\* The rows stored, over all tables.
RowCount(d) ==
    BagCardinality(d["user"]) + BagCardinality(d["user_teaching_areas"])
    + BagCardinality(d["resource"]) + BagCardinality(d["resource_view"])
    + BagCardinality(d["resource_vote_info"]) + BagCardinality(d["resource_creater"])
    + BagCardinality(d["resource_comment"]) + BagCardinality(d["resource_comment_reply"])
    + BagCardinality(d["private_resource_personnel"]) + BagCardinality(d["tag"])
    + BagCardinality(d["resource_tag_record"]) + BagCardinality(d["channel"])
    + BagCardinality(d["channel_personnel"]) + BagCardinality(d["channel_tag_record"])
    + BagCardinality(d["channel_post"]) + BagCardinality(d["channel_post_vote_info"])
    + BagCardinality(d["post_comment"]) + BagCardinality(d["post_comment_vote_info"])

(***************************************************************************)
(* The engine's constraints, as the DDL of create_all declares them.       *)
(***************************************************************************)
\* PRIMARY KEY (pk): a stored row with the same key.
DuplicateKey(d, cls, row) ==
    \E x \in Stored(d, cls.tablename) : \A c \in cls.pk : x[c] = row[c]

\* UNIQUE (col): a stored row with the same value in a unique column.
DuplicateUnique(d, cls, row) ==
    \E c \in cls.unique : \E x \in Stored(d, cls.tablename) : x[c] = row[c]

\* FOREIGN KEY (col) REFERENCES ref (refcol): a non-NULL value that names no row.
Dangling(d, fk, row) ==
    /\ row[fk.col] # NULL
    /\ \A p \in Stored(d, fk.ref) : p[fk.refcol] # row[fk.col]

MissingParent(d, cls, row) == \E fk \in cls.fks : Dangling(d, fk, row)

\* An engine that does not enforce foreign keys.
ForeignKeysUnchecked(d) == TRUE

\* Every stored foreign key names a stored row.
ForeignKeysHold(d) ==
    \A cls \in Base :
        \A row \in Stored(d, cls.tablename) : ~MissingParent(d, cls, row)

(***************************************************************************)
(* session.add(row); session.commit(): one INSERT, which the engine        *)
(* rejects with IntegrityError when a constraint fails; the transaction    *)
(* is rolled back and stores nothing.                                      *)
(***************************************************************************)
\* Tables created without their PRIMARY KEY and UNIQUE constraints.
InsertRejectedForeignKeysOnly(d, cls, row) == MissingParent(d, cls, row)

InsertRejected(d, cls, row) ==
    \/ DuplicateKey(d, cls, row)
    \/ DuplicateUnique(d, cls, row)
    \/ MissingParent(d, cls, row)

\* The constraint the engine's error names: the indexes are probed when the
\* row is written, the primary key's first; the foreign keys are checked
\* when the statement ends.
Violated(d, cls, row) ==
    IF DuplicateKey(d, cls, row) THEN "primary key"
    ELSE IF DuplicateUnique(d, cls, row) THEN "unique"
    ELSE IF MissingParent(d, cls, row) THEN "foreign key"
    ELSE ""

\* The tables a delete removed rows from, with the rows.
Removed(doomed) == [t \in {x \in TableNames : doomed[x] # {}} |-> doomed[t]]

\* What the caller sees of a call: the row it passed, the rows removed, and
\* the error raised, if any.
Ended(op, cls, row, outcome, violated, doomed) ==
    [op |-> op, table |-> cls.tablename, row |-> row, outcome |-> outcome,
     violated |-> violated, deleted |-> Removed(doomed), at |-> now]

NoCall ==
    [op |-> "none", table |-> "", row |-> <<>>, outcome |-> "ok",
     violated |-> "", deleted |-> Removed(NoRows), at |-> 0]

\* A rejected insert whose row is stored all the same.
AddWithoutRollback(cls, row) ==
    /\ catalog = TableNames
    /\ RowCount(db) < MaxRows
    /\ db' = [db EXCEPT ![cls.tablename] = @ (+) SetToBag({row})]
    /\ last' = IF InsertRejected(db, cls, row)
               THEN Ended("insert", cls, <<>>, "IntegrityError",
                          Violated(db, cls, row), NoRows)
               ELSE Ended("insert", cls, row, "ok", "", NoRows)
    /\ UNCHANGED <<catalog, helper, now, created_at_default>>

Add(cls, row) ==
    /\ catalog = TableNames
    /\ IF InsertRejected(db, cls, row)
       THEN /\ db' = db
            /\ last' = Ended("insert", cls, <<>>, "IntegrityError",
                             Violated(db, cls, row), NoRows)
       ELSE /\ RowCount(db) < MaxRows
            /\ db' = [db EXCEPT ![cls.tablename] = @ (+) SetToBag({row})]
            /\ last' = Ended("insert", cls, row, "ok", "", NoRows)
    /\ UNCHANGED <<catalog, helper, now, created_at_default>>

(***************************************************************************)
(* session.delete(row); session.commit().  The unit of work follows every  *)
(* backref whose cascade has "delete" from the row to the rows that point  *)
(* at it, and on from those; then it emits the DELETEs, children first.    *)
(* The engine rejects a DELETE that leaves a foreign key without its row,  *)
(* and the transaction is rolled back.                                     *)
(***************************************************************************)
\* Relationships declared without cascade: the unit of work follows none.
CascadeStepWithoutBackref(d, doomed) == doomed

\* The doomed rows and the rows reached from them through a cascading backref.
CascadeStep(d, doomed) ==
    [t \in TableNames |->
        doomed[t] \cup
        {x \in Stored(d, t) :
            \E fk \in metadata[t].fks :
                /\ fk.col \in metadata[t].relationships
                /\ \E p \in doomed[fk.ref] : p[fk.refcol] = x[fk.col]}]

\* Cascades set on the relationship itself as well as on its backref: a
\* delete also travels from a row to the rows it points at.
RECURSIVE CascadeToParents(_, _)
CascadeToParents(d, doomed) ==
    LET next ==
            [t \in TableNames |->
                CascadeStep(d, doomed)[t] \cup
                {p \in Stored(d, t) :
                    \E c \in TableNames : \E fk \in metadata[c].fks :
                        /\ fk.ref = t
                        /\ fk.col \in metadata[c].relationships
                        /\ \E x \in doomed[c] : x[fk.col] = p[fk.refcol]}]
    IN IF next = doomed THEN doomed ELSE CascadeToParents(d, next)

RECURSIVE Cascade(_, _)
Cascade(d, doomed) ==
    LET next == CascadeStep(d, doomed)
    IN IF next = doomed THEN doomed ELSE Cascade(d, next)

Without(d, doomed) ==
    [t \in TableNames |-> [r \in Stored(d, t) \ doomed[t] |-> d[t][r]]]

Delete(cls, row) ==
    /\ catalog = TableNames
    /\ row \in Stored(db, cls.tablename)
    /\ LET doomed == Cascade(db, [NoRows EXCEPT ![cls.tablename] = {row}])
           rest == Without(db, doomed)
       IN IF ForeignKeysHold(rest)
          THEN /\ db' = rest
               /\ last' = Ended("delete", cls, row, "ok", "", doomed)
          ELSE /\ db' = db
               /\ last' = Ended("delete", cls, row, "IntegrityError",
                                "foreign key", NoRows)
    /\ UNCHANGED <<catalog, helper, now, created_at_default>>

(***************************************************************************)
(* Loading the module: create_engine(DBPATH); Base.metadata.create_all.    *)
(* create_all looks each table up first and creates the missing ones.      *)
(* The class bodies run at the load: each created_at Column is built with  *)
(* default=datetime.datetime.now(tz=...), a call made there and then, so   *)
(* the Column holds the datetime of the load.  The clock is read in steps  *)
(* of one operation: the calls of one load read the same time.             *)
(***************************************************************************)
\* The classes with a created_at Column.
HasCreatedAt ==
    {User, Resource, ResourceView, ResourceComment, ResourceCommentReply,
     ChannelPost, PostComment}

CreatedAtTables == {cls.tablename : cls \in HasCreatedAt}

\* create_all(engine, checkfirst=False): CREATE TABLE for every table.
create_all_unchecked(cat) ==
    IF cat \cap TableNames # {}
    THEN [tables |-> cat, outcome |-> "ProgrammingError"]
    ELSE [tables |-> cat \cup TableNames, outcome |-> "ok"]

create_all(cat) ==
    LET missing == {t \in TableNames : t \notin cat}
    IN [tables |-> cat \cup missing, outcome |-> "ok"]

LoadModule ==
    /\ LET r == create_all(catalog)
       IN /\ catalog' = r.tables
          /\ last' = [NoCall EXCEPT !.op = "create_all", !.outcome = r.outcome,
                                    !.at = now]
    /\ created_at_default' = [t \in CreatedAtTables |-> now]
    /\ UNCHANGED <<db, helper, now>>

\* The rows a caller may hand to each class.
UserRows == [uid : Ids, email : Emails]
UserTeachingAreasRows == [uid : Ids, teaching_area : Ids]
ResourceRows == [rid : Ids]
ResourceViewRows == [rid : Ids, uid : Ids]
ResourceVoteInfoRows == [uid : Ids, rid : Ids]
ResourceCreaterRows == [rid : Ids, uid : Ids]
ResourceCommentRows == [resource_comment_id : Ids, uid : OptIds, rid : OptIds]
ResourceCommentReplyRows == [resource_comment_id : Ids, created_at : Times, uid : Ids]
PrivateResourcePersonnelRows == [rid : Ids, uid : Ids]
TagRows == [tag_id : Ids, tag_name : Names]
ResourceTagRecordRows == [tag_id : Ids, rid : Ids]
ChannelRows == [cid : Ids, name : Names, admin_uid : OptIds]
ChannelPersonnelRows == [cid : Ids, uid : Ids]
ChannelTagRecordRows == [tag_id : Ids, cid : Ids]
ChannelPostRows == [post_id : Ids, uid : OptIds, cid : OptIds]
ChannelPostVoteInfoRows == [post_id : Ids, uid : Ids]
PostCommentRows == [post_comment_id : Ids, post_id : OptIds, uid : OptIds]
PostCommentVoteInfoRows == [post_comment_id : Ids, uid : Ids]

(***************************************************************************)
(* The callers' operations: one insert and one delete per mapped class.    *)
(* An insert may name any primary key: the next value of the table's       *)
(* sequence is one of the unused ones.                                      *)
(***************************************************************************)
InsertUser == \E row \in UserRows : Add(User, row)

InsertUserTeachingAreas == \E row \in UserTeachingAreasRows : Add(UserTeachingAreas, row)

InsertResource == \E row \in ResourceRows : Add(Resource, row)

InsertResourceView == \E row \in ResourceViewRows : Add(ResourceView, row)

InsertResourceVoteInfo == \E row \in ResourceVoteInfoRows : Add(ResourceVoteInfo, row)

InsertResourceCreater == \E row \in ResourceCreaterRows : Add(ResourceCreater, row)

InsertResourceComment == \E row \in ResourceCommentRows : Add(ResourceComment, row)

InsertResourceCommentReply == \E row \in ResourceCommentReplyRows : Add(ResourceCommentReply, row)

InsertPrivateResourcePersonnel == \E row \in PrivateResourcePersonnelRows : Add(PrivateResourcePersonnel, row)

InsertTag == \E row \in TagRows : Add(Tag, row)

InsertResourceTagRecord == \E row \in ResourceTagRecordRows : Add(ResourceTagRecord, row)

InsertChannel == \E row \in ChannelRows : Add(Channel, row)

InsertChannelPersonnel == \E row \in ChannelPersonnelRows : Add(ChannelPersonnel, row)

InsertChannelTagRecord == \E row \in ChannelTagRecordRows : Add(ChannelTagRecord, row)

InsertChannelPost == \E row \in ChannelPostRows : Add(ChannelPost, row)

InsertChannelPostVoteInfo == \E row \in ChannelPostVoteInfoRows : Add(ChannelPostVoteInfo, row)

InsertPostComment == \E row \in PostCommentRows : Add(PostComment, row)

InsertPostCommentVoteInfo == \E row \in PostCommentVoteInfoRows : Add(PostCommentVoteInfo, row)

DeleteUser == \E row \in Stored(db, "user") : Delete(User, row)
DeleteUserTeachingAreas ==
    \E row \in Stored(db, "user_teaching_areas") : Delete(UserTeachingAreas, row)
DeleteResource == \E row \in Stored(db, "resource") : Delete(Resource, row)
DeleteResourceView == \E row \in Stored(db, "resource_view") : Delete(ResourceView, row)
DeleteResourceVoteInfo ==
    \E row \in Stored(db, "resource_vote_info") : Delete(ResourceVoteInfo, row)
DeleteResourceCreater ==
    \E row \in Stored(db, "resource_creater") : Delete(ResourceCreater, row)
DeleteResourceComment ==
    \E row \in Stored(db, "resource_comment") : Delete(ResourceComment, row)
DeleteResourceCommentReply ==
    \E row \in Stored(db, "resource_comment_reply") : Delete(ResourceCommentReply, row)
DeletePrivateResourcePersonnel ==
    \E row \in Stored(db, "private_resource_personnel") :
        Delete(PrivateResourcePersonnel, row)
DeleteTag == \E row \in Stored(db, "tag") : Delete(Tag, row)
DeleteResourceTagRecord ==
    \E row \in Stored(db, "resource_tag_record") : Delete(ResourceTagRecord, row)
DeleteChannel == \E row \in Stored(db, "channel") : Delete(Channel, row)
DeleteChannelPersonnel ==
    \E row \in Stored(db, "channel_personnel") : Delete(ChannelPersonnel, row)
DeleteChannelTagRecord ==
    \E row \in Stored(db, "channel_tag_record") : Delete(ChannelTagRecord, row)
DeleteChannelPost == \E row \in Stored(db, "channel_post") : Delete(ChannelPost, row)
DeleteChannelPostVoteInfo ==
    \E row \in Stored(db, "channel_post_vote_info") : Delete(ChannelPostVoteInfo, row)
DeletePostComment == \E row \in Stored(db, "post_comment") : Delete(PostComment, row)
DeletePostCommentVoteInfo ==
    \E row \in Stored(db, "post_comment_vote_info") : Delete(PostCommentVoteInfo, row)

Insert ==
    \/ InsertUser \/ InsertUserTeachingAreas \/ InsertResource
    \/ InsertResourceView \/ InsertResourceVoteInfo \/ InsertResourceCreater
    \/ InsertResourceComment \/ InsertResourceCommentReply
    \/ InsertPrivateResourcePersonnel \/ InsertTag \/ InsertResourceTagRecord
    \/ InsertChannel \/ InsertChannelPersonnel \/ InsertChannelTagRecord
    \/ InsertChannelPost \/ InsertChannelPostVoteInfo \/ InsertPostComment
    \/ InsertPostCommentVoteInfo

Remove ==
    \/ DeleteUser \/ DeleteUserTeachingAreas \/ DeleteResource
    \/ DeleteResourceView \/ DeleteResourceVoteInfo \/ DeleteResourceCreater
    \/ DeleteResourceComment \/ DeleteResourceCommentReply
    \/ DeletePrivateResourcePersonnel \/ DeleteTag \/ DeleteResourceTagRecord
    \/ DeleteChannel \/ DeleteChannelPersonnel \/ DeleteChannelTagRecord
    \/ DeleteChannelPost \/ DeleteChannelPostVoteInfo \/ DeletePostComment
    \/ DeletePostCommentVoteInfo

\* No helper called yet.
Idle == [fn |-> "none"]

\* A store with nothing created in it, before the module is first loaded.
Init ==
    /\ catalog = {}
    /\ db = EmptyTables
    /\ last = NoCall
    /\ helper = Idle
    /\ now = 1
    /\ created_at_default = [t \in CreatedAtTables |-> NULL]

Next == LoadModule \/ Insert \/ Remove

Spec == Init /\ [][Next]_vars

(***************************************************************************)
(* Rows added with no created_at given.  The unit of work fills the column *)
(* from the Column's default, which is a datetime, not a callable: the one *)
(* the class body computed when the module was loaded.  Here the rows keep *)
(* their created_at column, and time passes between the calls.             *)
(***************************************************************************)
\* The row as the INSERT writes it: created_at holds the value at.
WithCreatedAt(row, at) ==
    [c \in DOMAIN row \cup {"created_at"} |->
        IF c = "created_at" THEN at ELSE row[c]]

\* The primary-key columns of the row the caller passed.
KeyGiven(cls, row) == [c \in cls.pk \cap DOMAIN row |-> row[c]]

\* A Column built with default=datetime.datetime.now, the function: it is
\* called at each insert.
AddDefaultCalledAtInsert(cls, row) ==
    /\ catalog = TableNames
    /\ LET full == WithCreatedAt(row, now)
       IN IF InsertRejected(db, cls, full)
          THEN /\ db' = db
               /\ last' = Ended("insert", cls, KeyGiven(cls, row),
                                "IntegrityError", Violated(db, cls, full), NoRows)
          ELSE /\ RowCount(db) < MaxRows
               /\ db' = [db EXCEPT ![cls.tablename] = @ (+) SetToBag({full})]
               /\ last' = Ended("insert", cls, row, "ok", "", NoRows)
    /\ UNCHANGED <<catalog, helper, now, created_at_default>>

\* session.add(row); session.commit() of a row whose created_at was not
\* set.  The call is remembered with the row as the caller passed it, or
\* with its key when the insert was rejected.
AddDefault(cls, row) ==
    /\ catalog = TableNames
    /\ LET full == WithCreatedAt(row, created_at_default[cls.tablename])
       IN IF InsertRejected(db, cls, full)
          THEN /\ db' = db
               /\ last' = Ended("insert", cls, KeyGiven(cls, row),
                                "IntegrityError", Violated(db, cls, full), NoRows)
          ELSE /\ RowCount(db) < MaxRows
               /\ db' = [db EXCEPT ![cls.tablename] = @ (+) SetToBag({full})]
               /\ last' = Ended("insert", cls, row, "ok", "", NoRows)
    /\ UNCHANGED <<catalog, helper, now, created_at_default>>

\* The replies a caller may hand over with no created_at.
ResourceCommentReplyUntimedRows == [resource_comment_id : Ids, uid : Ids]

InsertUserDefault == \E row \in UserRows : AddDefault(User, row)

InsertResourceDefault == \E row \in ResourceRows : AddDefault(Resource, row)

InsertResourceViewDefault ==
    \E row \in ResourceViewRows : AddDefault(ResourceView, row)

InsertResourceCommentDefault ==
    \E row \in ResourceCommentRows : AddDefault(ResourceComment, row)

InsertResourceCommentReplyDefault ==
    \E row \in ResourceCommentReplyUntimedRows :
        AddDefault(ResourceCommentReply, row)

InsertChannelPostDefault ==
    \E row \in ChannelPostRows : AddDefault(ChannelPost, row)

InsertPostCommentDefault ==
    \E row \in PostCommentRows : AddDefault(PostComment, row)

InsertDefault ==
    \/ InsertUserDefault \/ InsertResourceDefault \/ InsertResourceViewDefault
    \/ InsertResourceCommentDefault \/ InsertResourceCommentReplyDefault
    \/ InsertChannelPostDefault \/ InsertPostCommentDefault

\* Time passes.
Tick ==
    /\ now < MaxTime
    /\ now' = now + 1
    /\ UNCHANGED <<catalog, db, last, helper, created_at_default>>

NextClock == LoadModule \/ Tick \/ InsertDefault \/ InsertResourceCommentReply

SpecClock == Init /\ [][NextClock]_vars

(***************************************************************************)
(* The conversion helpers, called on their own: they read no table.        *)
(***************************************************************************)
\* The enum class of that name.
EnumClass(name) == CHOOSE E \in EnumClasses : \A m \in E : m.class = name

\* enum_to_website_output(item), for any member of any class.
EnumToWebsiteOutput ==
    /\ \E E \in EnumClasses : \E item \in E :
          helper' = [fn |-> "enum_to_website_output", item |-> item,
                     ret |-> enum_to_website_output(item)]
    /\ UNCHANGED <<catalog, db, last, now, created_at_default>>

\* website_input_to_enum(text, class) on the text enum_to_website_output
\* returned for a member of the class.
WebsiteOutputToEnum ==
    /\ helper.fn = "enum_to_website_output"
    /\ LET r == website_input_to_enum(helper.ret, EnumClass(helper.item.class))
       IN helper' = [fn |-> "website_input_to_enum", item |-> helper.item,
                     readable_string |-> helper.ret,
                     enum_class |-> helper.item.class,
                     ret |-> r.ret, raised |-> r.raised]
    /\ UNCHANGED <<catalog, db, last, now, created_at_default>>

\* website_input_to_enum(text, class) on a text the website sent.
WebsiteInputToEnum ==
    /\ \E readable_string \in WebsiteInputs : \E E \in EnumClasses :
          LET r == website_input_to_enum(readable_string, E)
          IN helper' = [fn |-> "website_input_to_enum", item |-> None,
                        readable_string |-> readable_string,
                        enum_class |-> (CHOOSE m \in E : TRUE).class,
                        ret |-> r.ret, raised |-> r.raised]
    /\ UNCHANGED <<catalog, db, last, now, created_at_default>>

NextEnum == EnumToWebsiteOutput \/ WebsiteOutputToEnum \/ WebsiteInputToEnum

SpecEnum == Init /\ [][NextEnum]_vars

\* The characters of the passwords tried: 'a', '?', e-acute, the euro sign,
\* an emoji outside the basic plane, and a lone surrogate, which no codec
\* encodes.
PasswordChars == {97, 63, 233, 8364, 128512, 55357}

Passwords == UNION {[1 .. n -> PasswordChars] : n \in 0 .. MaxLen}

\* ascii_to_base64(password)
AsciiToBase64 ==
    /\ \E password \in Passwords :
          LET r == ascii_to_base64(password)
          IN helper' = [fn |-> "ascii_to_base64", password |-> password,
                        ret |-> r.ret, raised |-> r.raised]
    /\ UNCHANGED <<catalog, db, last, now, created_at_default>>

\* base64_to_ascii(text) on the text ascii_to_base64 returned.
Base64ToAscii ==
    /\ helper.fn = "ascii_to_base64"
    /\ helper.raised = ""
    /\ LET r == base64_to_ascii(helper.ret)
       IN helper' = [fn |-> "base64_to_ascii", password |-> helper.password,
                     encoded_password |-> helper.ret,
                     ret |-> r.ret, raised |-> r.raised]
    /\ UNCHANGED <<catalog, db, last, now, created_at_default>>

NextPassword == AsciiToBase64 \/ Base64ToAscii

SpecPassword == Init /\ [][NextPassword]_vars

(***************************************************************************)
(* Claims about the stored tables.                                         *)
(***************************************************************************)
\* The rows of dependent tables whose foreign key fk holds row p's key.
Referencing(d, cls, fk, p) ==
    {x \in BagToSet(d[cls.tablename]) : x[fk.col] = p[fk.refcol]}

\* The rows of table t the call l removed.
DeletedFrom(l, t) == IF t \in DOMAIN l.deleted THEN l.deleted[t] ELSE {}

\* The class of the last call's table.
LastClass(l) == CHOOSE cls \in Base : cls.tablename = l.table

\* C1: after a row of User, Resource, Channel, ChannelPost, ResourceComment,
\* Tag or PostComment is deleted through the ORM, no row remains in any
\* dependent table whose foreign key holds the deleted row's id, for every
\* declared foreign key (ChannelPost.uid -> User.uid included) and every
\* state the inserts before the delete can reach.
C1_NoDependentRowRemains ==
    last.op = "delete" =>
        \A cls \in Base : \A fk \in cls.fks :
            fk.ref = last.table => Referencing(db, cls, fk, last.row) = {}

\* The state C1 fails in: the delete of a user who wrote a post, refused by
\* the engine because channel_post.uid still names the user.
C1_UserWithPostNotDeleted ==
    /\ last.op = "delete" /\ last.table = "user"
    /\ last.outcome = "IntegrityError"
    /\ Referencing(db, ChannelPost, FK("uid", "user", "uid"), last.row) # {}

\* The rows of every table that name row p of table t in a foreign key.
Dependents(d, t, p) ==
    [c \in TableNames |->
        {x \in BagToSet(d[c]) :
            \E fk \in metadata[c].fks : fk.ref = t /\ x[fk.col] = p[fk.refcol]}]

\* Row p of fk's parent table was inserted, then row c of cls naming it
\* through fk, and nothing else names either.
ParentThenChild(d, cls, fk, p, c) ==
    /\ c \in BagToSet(d[cls.tablename])
    /\ c[fk.col] = p[fk.refcol]
    /\ Dependents(d, fk.ref, p) = [NoRows EXCEPT ![cls.tablename] = {c}]
    /\ Dependents(d, cls.tablename, c) = NoRows

\* C2: for each relationship declared with a cascading backref, inserting a
\* parent row, inserting a child row that references it through the
\* relationship, then deleting the parent through the ORM leaves no child
\* row referencing the deleted parent's id.
C2_DeleteParentRemovesChild ==
    [][last'.op = "delete" =>
        \A cls \in Base : \A fk \in cls.fks :
            (/\ fk.col \in cls.relationships
             /\ fk.ref = last'.table
             /\ \E c \in BagToSet(db[cls.tablename]) :
                    ParentThenChild(db, cls, fk, last'.row, c))
            => /\ last'.row \notin BagToSet(db'[last'.table])
               /\ Referencing(db', cls, fk, last'.row) = {}]_vars

\* A user with one teaching area, and nothing else of theirs, was deleted.
C2_Witness ==
    /\ last.op = "delete" /\ last.table = "user" /\ last.outcome = "ok"
    /\ Cardinality(DeletedFrom(last, "user_teaching_areas")) = 1
    /\ DOMAIN last.deleted = {"user", "user_teaching_areas"}

\* C3: in every state reachable by ORM inserts and deletes, every stored
\* foreign-key value identifies a row that exists in the referenced table.
C3_NoDanglingReference ==
    \A cls \in Base : \A fk \in cls.fks :
        \A x \in BagToSet(db[cls.tablename]) :
            x[fk.col] # NULL =>
                \E p \in BagToSet(db[fk.ref]) : p[fk.refcol] = x[fk.col]

\* A parent was deleted together with a row that referenced it, and other
\* rows are still stored.
C3_Witness ==
    /\ last.op = "delete" /\ last.outcome = "ok"
    /\ DOMAIN last.deleted # {last.table}
    /\ RowCount(db) > 0

\* No two stored rows of cls agree on the columns cols, and no row is stored twice.
AtMostOnePer(d, cls, cols) ==
    /\ \A x \in BagToSet(d[cls.tablename]) : CopiesIn(x, d[cls.tablename]) = 1
    /\ \A x, y \in BagToSet(d[cls.tablename]) :
           (\A c \in cols : x[c] = y[c]) => x = y

\* The composite-key association tables C4 names.
AssociationTables ==
    {ResourceView, ResourceVoteInfo, ResourceCreater, PrivateResourcePersonnel,
     ResourceTagRecord, ChannelPersonnel, ChannelTagRecord, ChannelPostVoteInfo,
     PostCommentVoteInfo}

KeysAreUnique(d) ==
    /\ \A cls \in AssociationTables : AtMostOnePer(d, cls, cls.pk)
    /\ AtMostOnePer(d, User, {"email"})
    /\ AtMostOnePer(d, Tag, {"tag_name"})
    /\ AtMostOnePer(d, Channel, {"name"})

\* The key or unique value of row is already stored in d.
AlreadyPresent(d, cls, row) ==
    \/ /\ cls \in AssociationTables
       /\ \E x \in BagToSet(d[cls.tablename]) : \A c \in cls.pk : x[c] = row[c]
    \/ cls = User /\ \E x \in BagToSet(d["user"]) : x.email = row.email
    \/ cls = Tag /\ \E x \in BagToSet(d["tag"]) : x.tag_name = row.tag_name
    \/ cls = Channel /\ \E x \in BagToSet(d["channel"]) : x.name = row.name

\* C4: no table holds two rows with the same key: each composite-key
\* association table has at most one row per key tuple, no two users share
\* an email, no two tags a tag_name, no two channels a name; and an insert
\* whose key or unique value is already present is rejected.
C4_KeysUnique ==
    [][/\ KeysAreUnique(db')
       /\ (last'.op = "insert" /\ last'.outcome = "ok")
            => ~AlreadyPresent(db, LastClass(last'), last'.row)]_vars

\* A second ResourceVoteInfo row with a stored (uid, rid) was rejected.
C4_Witness ==
    /\ last.op = "insert" /\ last.table = "resource_vote_info"
    /\ last.outcome = "IntegrityError" /\ last.violated = "primary key"
    /\ BagCardinality(db["resource_vote_info"]) = 1

\* The write of row to cls in d violates referential integrity: a foreign
\* key naming no row, a duplicate value in a unique column, a duplicate key.
ViolatesIntegrity(d, cls, row) ==
    \/ \E fk \in cls.fks :
          /\ row[fk.col] # NULL
          /\ ~\E p \in BagToSet(d[fk.ref]) : p[fk.refcol] = row[fk.col]
    \/ \E x \in BagToSet(d[cls.tablename]) :
          \/ \E c \in cls.unique : x[c] = row[c]
          \/ \A c \in cls.pk : x[c] = row[c]

\* C5: a write that violates referential integrity ends in a rejected-write
\* error, and the stored tables after the rejected write equal the stored
\* tables before it.  (Every insert ends accepted or rejected: a violating
\* one is rejected exactly when no accepted one violates.)
C5_RejectedWriteStoresNothing ==
    [][last'.op = "insert" =>
        /\ last'.outcome \in {"ok", "IntegrityError"}
        /\ last'.outcome = "IntegrityError" => db' = db
        /\ last'.outcome = "ok" =>
              ~ViolatesIntegrity(db, LastClass(last'), last'.row)]_vars

\* An insert naming a missing parent was rejected while rows were stored.
C5_Witness ==
    /\ last.op = "insert" /\ last.outcome = "IntegrityError"
    /\ last.violated = "foreign key"
    /\ RowCount(db) > 0

\* C9: schema creation is idempotent: create_all run against a store where
\* it already ran raises no error and leaves the same tables, one per
\* entity, and the stored rows untouched.
C9_CreateAllIdempotent ==
    [][(last'.op = "create_all" /\ catalog = TableNames) =>
        /\ last'.outcome = "ok"
        /\ catalog' = TableNames
        /\ db' = db]_vars

\* The module was loaded again over a store that holds rows.
C9_Witness ==
    /\ last.op = "create_all" /\ last.outcome = "ok"
    /\ catalog = TableNames
    /\ RowCount(db) > 0

\* What deleting user u must remove, by C10: the channels u administers,
\* their posts, those posts' comments and votes, those comments' votes.
AdministeredChain(d, u) ==
    LET channels == {c \in BagToSet(d["channel"]) : c.admin_uid = u.uid}
        posts == {p \in BagToSet(d["channel_post"]) :
                     \E c \in channels : p.cid = c.cid}
        comments == {m \in BagToSet(d["post_comment"]) :
                        \E p \in posts : m.post_id = p.post_id}
    IN [NoRows EXCEPT
          !["channel"] = channels,
          !["channel_post"] = posts,
          !["post_comment"] = comments,
          !["channel_post_vote_info"] =
              {v \in BagToSet(d["channel_post_vote_info"]) :
                  \E p \in posts : v.post_id = p.post_id},
          !["post_comment_vote_info"] =
              {v \in BagToSet(d["post_comment_vote_info"]) :
                  \E m \in comments : v.post_comment_id = m.post_comment_id}]

\* What deleting resource r must remove, by C10: its comments and their replies.
CommentChain(d, r) ==
    LET comments == {m \in BagToSet(d["resource_comment"]) : m.rid = r.rid}
    IN [NoRows EXCEPT
          !["resource_comment"] = comments,
          !["resource_comment_reply"] =
              {y \in BagToSet(d["resource_comment_reply"]) :
                  \E m \in comments :
                      y.resource_comment_id = m.resource_comment_id}]

NoneStored(d, rows) == \A t \in TableNames : rows[t] \cap BagToSet(d[t]) = {}

\* C10: deletion is recursive along chains of cascade relationships: after a
\* User is deleted through the ORM every channel the user administered is
\* gone, with the posts of those channels, the comments and votes of those
\* posts and the votes of those comments, whoever wrote them; deleting a
\* Resource removes its comments and their replies.
C10_DeleteIsRecursive ==
    [][last'.op = "delete" =>
        /\ last'.table = "user" =>
              NoneStored(db', AdministeredChain(db, last'.row))
        /\ last'.table = "resource" =>
              NoneStored(db', CommentChain(db, last'.row))]_vars

\* The state C10 fails in: the delete of a user who administers a channel
\* and wrote a post was refused, and the channel is still stored.
C10_AdministeredChannelRemains ==
    /\ last.op = "delete" /\ last.table = "user"
    /\ last.outcome = "IntegrityError"
    /\ \E c \in BagToSet(db["channel"]) : c.admin_uid = last.row.uid

\* What holds of the code: a delete the engine accepts is recursive.
AcceptedDeleteIsRecursive ==
    [][(last'.op = "delete" /\ last'.outcome = "ok") =>
        /\ last'.table = "user" =>
              NoneStored(db', AdministeredChain(db, last'.row))
        /\ last'.table = "resource" =>
              NoneStored(db', CommentChain(db, last'.row))]_vars

(***************************************************************************)
(* Claims about the conversion helpers.                                    *)
(***************************************************************************)
Underscores(name) == Cardinality({i \in 1 .. Len(name) : name[i] = "_"})

\* C6: for every enum class E among ResourceDifficulty, Subject, Grade and
\* ChannelVisibility and every member m of E whose name has at most one
\* underscore, website_input_to_enum(enum_to_website_output(m), E) returns m.
C6_EnumRoundTrip ==
    (/\ helper.fn = "website_input_to_enum"
     /\ helper.item # None
     /\ Underscores(helper.item.name) <= 1)
    => helper.raised = "" /\ helper.ret = helper.item

\* The round trip was made for FULLY_PRIVATE, whose name has an underscore.
C6_Witness ==
    /\ helper.fn = "website_input_to_enum"
    /\ helper.item \in ChannelVisibility
    /\ Underscores(helper.item.name) = 1
    /\ helper.readable_string =
          <<"F", "u", "l", "l", "y", " ", "P", "r", "i", "v", "a", "t", "e">>
    /\ helper.ret = helper.item

\* C7: for every password string p of encodable characters,
\* base64_to_ascii(ascii_to_base64(p)) equals p exactly.
C7_PasswordRoundTrip ==
    (/\ helper.fn = "base64_to_ascii"
     /\ \A i \in 1 .. Len(helper.password) :
           ~(helper.password[i] >= 55296 /\ helper.password[i] <= 57343))
    => helper.raised = "" /\ helper.ret = helper.password

\* A password of one-, two- and three-byte characters, whose encoding is
\* padded, went through both helpers.
C7_Witness ==
    /\ helper.fn = "base64_to_ascii"
    /\ Len(helper.password) = MaxLen
    /\ \E i, j \in 1 .. MaxLen : helper.password[i] < 128 /\ helper.password[j] > 2047
    /\ helper.encoded_password[Len(helper.encoded_password)] = 61
    /\ helper.ret = helper.password

\* s, upper-cased, with only its first space replaced by an underscore.
\* r is that text: as long as s, '_' where s has its first space, and the
\* upper-case of s's character everywhere else.
IsNameFor(r, s) ==
    /\ Len(r) = Len(s)
    /\ \A i \in 1 .. Len(s) :
          IF s[i] = " " /\ \A j \in 1 .. (i - 1) : s[j] # " "
          THEN r[i] = "_"
          ELSE \/ \E k \in Letters : s[i] = Lowercase[k] /\ r[i] = Uppercase[k]
               \/ (\A k \in Letters : s[i] # Lowercase[k]) /\ r[i] = s[i]

UntimedReply(l) ==
    /\ l.op = "insert" /\ l.table = "resource_comment_reply"
    /\ DOMAIN l.row = {"resource_comment_id", "uid"}

\* The stored replies of user u to comment c.
RepliesOf(d, c, u) ==
    {y \in BagToSet(d["resource_comment_reply"]) :
        y.resource_comment_id = c /\ y.uid = u}

\* C11: the same replier can store more than one reply to the same
\* ResourceComment: an insert of a ResourceCommentReply is accepted whenever
\* its (resource_comment_id, created_at, uid) is not already present, so
\* successive replies by one user to one comment, inserted at different
\* times, are all stored and told apart by their timestamps.  Stated of two
\* calls in a row: a reply was stored, and the next call, at a later time,
\* hands over a reply of the same user to the same comment.
C11_SuccessiveRepliesStored ==
    [][(/\ last.op = "insert" /\ last.table = "resource_comment_reply"
        /\ last.outcome = "ok"
        /\ UntimedReply(last')
        /\ last'.at > last.at
        /\ last'.row.resource_comment_id = last.row.resource_comment_id
        /\ last'.row.uid = last.row.uid)
       => /\ last'.outcome = "ok"
          /\ \E x, y \in RepliesOf(db', last.row.resource_comment_id, last.row.uid) :
                x.created_at # y.created_at]_vars

\* The state C11 fails in: a second reply, handed over after the load with
\* no created_at, was rejected for its key, which the reply stored before
\* holds: both carry the datetime of the load.
C11_SecondReplyRejected ==
    /\ UntimedReply(last)
    /\ last.outcome = "IntegrityError" /\ last.violated = "primary key"
    /\ last.at > created_at_default["resource_comment_reply"]
    /\ \E y \in RepliesOf(db, last.row.resource_comment_id, last.row.uid) :
          y.created_at = created_at_default["resource_comment_reply"]


\* The call l stored a row handed over with no created_at.
UntimedStored(l) ==
    /\ l.op = "insert" /\ l.outcome = "ok"
    /\ l.table \in CreatedAtTables
    /\ "created_at" \notin DOMAIN l.row

RECURSIVE DependOn(_, _)
DependOn(d, rows) ==
    LET next ==
            [t \in TableNames |->
                rows[t] \cup
                {x \in BagToSet(d[t]) :
                    \E fk \in metadata[t].fks :
                        \E p \in rows[fk.ref] : p[fk.refcol] = x[fk.col]}]
    IN IF next = rows THEN rows ELSE DependOn(d, next)

\* The rows of table t stored in d and no longer in e.
Gone(d, e, t) == {x \in BagToSet(d[t]) : CopiesIn(x, e[t]) # CopiesIn(x, d[t])}

\* The rows that row of class cls points at.
PointedAt(d, cls, row) ==
    [t \in TableNames |->
        {p \in BagToSet(d[t]) :
            \E fk \in cls.fks : fk.ref = t /\ p[fk.refcol] = row[fk.col]}]

\* C13: a cascade delete removes only rows that depend on the deleted row,
\* never a row the deleted row pointed at or a sibling: deleting a User
\* leaves every Resource row unchanged (also a resource whose only
\* ResourceCreater row named that user), deleting a Tag leaves every
\* Resource and Channel row unchanged, and deleting a child row leaves its
\* parent rows unchanged; and no delete adds a row.
C13_DeleteRemovesOnlyDependents ==
    [][(last'.op = "delete" /\ db' # db) =>
        LET cls == LastClass(last')
            row == last'.row
        IN /\ \A may \in {DependOn(db, [NoRows EXCEPT ![last'.table] = {row}])} :
                 \A t \in TableNames :
                     /\ Gone(db, db', t) \subseteq may[t]
                     /\ BagToSet(db'[t]) \subseteq BagToSet(db[t])
           /\ \A up \in {PointedAt(db, cls, row)} :
                 \A t \in TableNames : up[t] \cap Gone(db, db', t) = {}
           /\ last'.table = "user" => db'["resource"] = db["resource"]
           /\ last'.table = "tag" =>
                 /\ db'["resource"] = db["resource"]
                 /\ db'["channel"] = db["channel"]]_vars

\* A user was deleted, the ResourceCreater row naming the user went with
\* it, and the resource that row named, which no other ResourceCreater row
\* names, is still stored.
C13_Witness ==
    /\ last.op = "delete" /\ last.table = "user" /\ last.outcome = "ok"
    /\ \E c \in DeletedFrom(last, "resource_creater") :
          /\ c.uid = last.row.uid
          /\ \E r \in BagToSet(db["resource"]) : r.rid = c.rid
          /\ ~\E o \in BagToSet(db["resource_creater"]) : o.rid = c.rid

====
